---- MODULE Spec2Model ----
(***************************************************************************)
(* Formula.py: propositional formulas, their recursive-descent parser and  *)
(* the two CNF pipelines of CNFConverter (classical distribution and the   *)
(* Tseitin search-and-rewrite loop), with the clause simplifier.           *)
(*                                                                         *)
(* A Python str is a sequence of one-character strings, so tokenizing,     *)
(* printing, "-"-prefixing and sorting act on characters as the code does. *)
(* A Formula(op, left, right) is a record; an absent child (None) is an    *)
(* absent field.  A variable Formula(name) is [op |-> "VAR", name |-> _].  *)
(***************************************************************************)
EXTENDS Integers, Sequences, FiniteSets, TLC

VARIABLES pc, s, f, error, text, f2, cnf_eq, g, clauses, fresh_id, tseitin,
          cls, once, twice

vars == <<pc, s, f, error, text, f2, cnf_eq, g, clauses, fresh_id, tseitin,
          cls, once, twice>>

\* ---------------------------------------------------------------- bounds
\* longest input string handed to FormulaParser
MaxInputLen == 5
\* most nodes of a formula handed to CNFConverter
MaxNodes == 5
\* most clauses, and most literals in all, of a list handed to _dedup_simplify
MaxClauses == 3
MaxLits == 4

\* ------------------------------------------------------------ characters
None == [op |-> "None"]

Digits == <<"0", "1", "2", "3", "4", "5", "6", "7", "8", "9">>

Letters == {"A", "B", "C", "D", "t", "v"}

\* str.isalnum() or '_' on the characters the model uses
IsIdentChar(c) == c \in Letters \/ c = "_" \/ \E i \in 1..Len(Digits) : Digits[i] = c

\* ord(c): the code point, which orders Python strings
Ord(c) ==
  CASE c = " " -> 32 [] c = "&" -> 38 [] c = "(" -> 40 [] c = ")" -> 41
    [] c = "-" -> 45 [] c = "<" -> 60 [] c = ">" -> 62
    [] c = "A" -> 65 [] c = "B" -> 66 [] c = "C" -> 67 [] c = "D" -> 68
    [] c = "_" -> 95 [] c = "t" -> 116 [] c = "v" -> 118
    [] OTHER -> 47 + CHOOSE i \in 1..Len(Digits) : Digits[i] = c

\* a < b on Python strings
RECURSIVE StrLess(_, _)
StrLess(a, b) ==
  IF a = <<>> THEN b # <<>>
  ELSE IF b = <<>> THEN FALSE
  ELSE IF Head(a) = Head(b) THEN StrLess(Tail(a), Tail(b))
  ELSE Ord(Head(a)) < Ord(Head(b))

\* str(n) for n >= 0
RECURSIVE IntToStr(_)
IntToStr(n) ==
  IF n < 10 THEN <<Digits[n + 1]>>
  ELSE IntToStr(n \div 10) \o <<Digits[(n % 10) + 1]>>

\* --------------------------------------------------------------- Formula
Variable(name) == [op |-> "VAR", name |-> name]

Not(x) == [op |-> "NOT", left |-> x]

Binary(op, l, r) == [op |-> op, left |-> l, right |-> r]

is_variable(x) == x.op = "VAR"

is_literal(x) ==
  is_variable(x) \/ (x.op = "NOT" /\ "left" \in DOMAIN x /\ is_variable(x.left))

sym(op) ==
  CASE op = "AND" -> <<"&">>
    [] op = "OR" -> <<"v">>
    [] op = "IMPL" -> <<"-", ">">>
    [] op = "EQUIV" -> <<"<", "-", ">">>

\* Formula.__str__
RECURSIVE FormulaStr(_)
FormulaStr(x) ==
  IF is_variable(x) THEN x.name
  ELSE IF x.op = "NOT" THEN <<"-">> \o FormulaStr(x.left)
  ELSE <<"(">> \o FormulaStr(x.left) \o <<" ">> \o sym(x.op) \o <<" ">>
       \o FormulaStr(x.right) \o <<")">>

\* --------------------------------------------------------- FormulaParser
\* s[i:j] with 0-based i, j clamped to the string as Python slices are
Slice(str, i, j) == SubSeq(str, i + 1, IF j > Len(str) THEN Len(str) ELSE j)

\* s.replace(' ', '')
RECURSIVE StripSpaces(_)
StripSpaces(str) ==
  IF str = <<>> THEN <<>>
  ELSE IF Head(str) = " " THEN StripSpaces(Tail(str))
  ELSE <<Head(str)>> \o StripSpaces(Tail(str))

\* the inner while: the end of the identifier run that starts at i
RECURSIVE IdentEnd(_, _)
IdentEnd(str, j) ==
  IF j < Len(str) /\ IsIdentChar(str[j + 1]) THEN IdentEnd(str, j + 1) ELSE j

RECURSIVE TokenizeFrom(_, _, _)
TokenizeFrom(str, i, out) ==
  IF ~(i < Len(str)) THEN out
  ELSE IF Slice(str, i, i + 3) = <<"<", "-", ">">>
    THEN TokenizeFrom(str, i + 3, Append(out, <<"<", "-", ">">>))
  ELSE IF Slice(str, i, i + 2) = <<"-", ">">>
    THEN TokenizeFrom(str, i + 2, Append(out, <<"-", ">">>))
  ELSE IF str[i + 1] \in {"-", "&", "v", "(", ")"}
    THEN TokenizeFrom(str, i + 1, Append(out, <<str[i + 1]>>))
  ELSE IF IsIdentChar(str[i + 1])
    THEN TokenizeFrom(str, IdentEnd(str, i), Append(out, Slice(str, i, IdentEnd(str, i))))
  ELSE TokenizeFrom(str, i + 1, out)

_tokenize(str) == TokenizeFrom(StripSpaces(str), 0, <<>>)

\* a parse function returns its node and self.pos, or raises ValueError
Parsed(node, pos) == [ok |-> TRUE, node |-> node, pos |-> pos]

Raise(msg) == [ok |-> FALSE, msg |-> msg]

\* self.pos < len(self.tokens) and self.tokens[self.pos] == t
AtToken(toks, pos, t) == pos < Len(toks) /\ toks[pos + 1] = t

\* Each method is cut where a called method returns: the operator named
\* After... is the rest of the method, given what the call returned (r), and
\* passes a ValueError on.
RECURSIVE _parse_equiv(_, _), _parse_impl(_, _), _parse_or(_, _), OrLoop(_, _),
          _parse_and(_, _), AndLoop(_, _), _parse_not(_, _), _parse_primary(_, _)

\* _parse_primary after node = self._parse_equiv()
AfterParen(toks, r) ==
  IF ~r.ok THEN r
  ELSE IF r.pos >= Len(toks) \/ toks[r.pos + 1] # <<")">> THEN Raise("Expected ')'")
  ELSE Parsed(r.node, r.pos + 1)

_parse_primary(toks, pos) ==
  IF AtToken(toks, pos, <<"(">>) THEN AfterParen(toks, _parse_equiv(toks, pos + 1))
  ELSE IF pos < Len(toks) THEN Parsed(Variable(toks[pos + 1]), pos + 1)
  ELSE Raise("Unexpected end")

\* _parse_not after self._parse_not()
AfterNot(r) == IF ~r.ok THEN r ELSE Parsed(Not(r.node), r.pos)

_parse_not(toks, pos) ==
  IF AtToken(toks, pos, <<"-">>) THEN AfterNot(_parse_not(toks, pos + 1))
  ELSE _parse_primary(toks, pos)

\* left = Formula(op, left, right) after right = r was parsed
Join(op, l, r) == IF ~r.ok THEN r ELSE Parsed(Binary(op, l.node, r.node), r.pos)

\* the while loop of _parse_and, l the left parsed so far
AndLoop(toks, l) ==
  IF ~l.ok THEN l
  ELSE IF AtToken(toks, l.pos, <<"&">>)
    THEN AndLoop(toks, Join("AND", l, _parse_not(toks, l.pos + 1)))
  ELSE l

_parse_and(toks, pos) == AndLoop(toks, _parse_not(toks, pos))

\* the while loop of _parse_or, l the left parsed so far
OrLoop(toks, l) ==
  IF ~l.ok THEN l
  ELSE IF AtToken(toks, l.pos, <<"v">>)
    THEN OrLoop(toks, Join("OR", l, _parse_and(toks, l.pos + 1)))
  ELSE l

_parse_or(toks, pos) == OrLoop(toks, _parse_and(toks, pos))

\* _parse_impl after left = self._parse_or()
AfterImplLeft(toks, l) ==
  IF ~l.ok THEN l
  ELSE IF AtToken(toks, l.pos, <<"-", ">">>)
    THEN Join("IMPL", l, _parse_impl(toks, l.pos + 1))
  ELSE l

_parse_impl(toks, pos) == AfterImplLeft(toks, _parse_or(toks, pos))

\* _parse_equiv after left = self._parse_impl()
AfterEquivLeft(toks, l) ==
  IF ~l.ok THEN l
  ELSE IF AtToken(toks, l.pos, <<"<", "-", ">">>)
    THEN Join("EQUIV", l, _parse_equiv(toks, l.pos + 1))
  ELSE l

_parse_equiv(toks, pos) == AfterEquivLeft(toks, _parse_impl(toks, pos))

\* parse after node = self._parse_equiv()
AfterParse(toks, r) ==
  IF ~r.ok THEN r
  ELSE IF r.pos # Len(toks) THEN Raise("Extraneous input")
  ELSE r

\* FormulaParser(s).parse()
parse(str) == AfterParse(_tokenize(str), _parse_equiv(_tokenize(str), 0))

\* ------------------------------------------------- parser specification
InputChars == {"A", "v", "&", "-", ">", "<", "(", ")", " "}

\* s: at most MaxInputLen characters
InitParser ==
  /\ \E n \in 0..MaxInputLen : s \in [1..n -> InputChars]
  /\ pc = "input"
  /\ f = None /\ error = "" /\ text = <<>> /\ f2 = None
  /\ cnf_eq = <<>> /\ g = None /\ clauses = <<>> /\ fresh_id = 0 /\ tseitin = <<>>
  /\ cls = <<>> /\ once = <<>> /\ twice = <<>>

\* main: parser = FormulaParser(arg); f = parser.parse()
Parse ==
  /\ pc = "input"
  /\ LET r == parse(s) IN
     IF r.ok THEN f' = r.node /\ error' = "" /\ pc' = "parsed"
     ELSE f' = f /\ error' = r.msg /\ pc' = "failed"
  /\ UNCHANGED <<s, text, f2, cnf_eq, g, clauses, fresh_id, tseitin, cls, once, twice>>

\* main: print(f"Parsed: {f}")
PrintParsed ==
  /\ pc = "parsed"
  /\ text' = FormulaStr(f)
  /\ pc' = "printed"
  /\ UNCHANGED <<s, f, error, f2, cnf_eq, g, clauses, fresh_id, tseitin, cls, once, twice>>

\* the round trip: FormulaParser(str(f)).parse()
Reparse ==
  /\ pc = "printed"
  /\ LET r == parse(text) IN
     IF r.ok THEN f2' = r.node /\ error' = "" /\ pc' = "reparsed"
     ELSE f2' = f2 /\ error' = r.msg /\ pc' = "refailed"
  /\ UNCHANGED <<s, f, text, cnf_eq, g, clauses, fresh_id, tseitin, cls, once, twice>>

NextParser == Parse \/ PrintParsed \/ Reparse

SpecParser == InitParser /\ [][NextParser]_vars

\* ---------------------------------------------------------- CNFConverter
RECURSIVE _elim_equiv_impl(_)
_elim_equiv_impl(x) ==
  IF is_variable(x) THEN x
  ELSE IF x.op = "NOT" THEN Not(_elim_equiv_impl(x.left))
  ELSE LET A == _elim_equiv_impl(x.left)
           B == _elim_equiv_impl(x.right) IN
       IF x.op = "IMPL" THEN Binary("OR", Not(A), B)
       ELSE IF x.op = "EQUIV"
         THEN Binary("AND", Binary("OR", Not(A), B), Binary("OR", Not(B), A))
       ELSE IF x.op \in {"AND", "OR"} THEN Binary(x.op, A, B)
       ELSE x

\* the tail of _nnf: the node rebuilt over its converted children
RECURSIVE _nnf(_)
NnfRebuild(x) ==
  IF "right" \notin DOMAIN x THEN [op |-> x.op, left |-> _nnf(x.left)]
  ELSE Binary(x.op, _nnf(x.left), _nnf(x.right))

_nnf(x) ==
  IF is_variable(x) THEN x
  ELSE IF x.op = "NOT"
    THEN IF is_variable(x.left) THEN x
         ELSE IF x.left.op = "NOT" THEN _nnf(x.left.left)
         ELSE IF x.left.op = "AND"
           THEN _nnf(Binary("OR", Not(x.left.left), Not(x.left.right)))
         ELSE IF x.left.op = "OR"
           THEN _nnf(Binary("AND", Not(x.left.left), Not(x.left.right)))
         ELSE NnfRebuild(x)
  ELSE NnfRebuild(x)

RECURSIVE _dist(_, _)
\* _dist without its second case: an AND on the right is not distributed
_dist_left_only(A, B) ==
  IF A.op = "AND" THEN Binary("AND", _dist(A.left, B), _dist(A.right, B))
  ELSE Binary("OR", A, B)

_dist(A, B) ==
  IF A.op = "AND" THEN Binary("AND", _dist(A.left, B), _dist(A.right, B))
  ELSE IF B.op = "AND" THEN Binary("AND", _dist(A, B.left), _dist(A, B.right))
  ELSE Binary("OR", A, B)

RECURSIVE _dist_or_over_and(_)
_dist_or_over_and(x) ==
  IF is_variable(x) \/ is_literal(x) THEN x
  ELSE IF x.op = "NOT" THEN Not(_dist_or_over_and(x.left))
  ELSE LET L == _dist_or_over_and(x.left)
           R == _dist_or_over_and(x.right) IN
       IF x.op = "AND" THEN Binary("AND", L, R)
       ELSE IF x.op = "OR" THEN _dist(L, R)
       ELSE Binary(x.op, L, R)

RECURSIVE _or_to_literals(_)
_or_to_literals(x) ==
  IF x.op = "OR" THEN _or_to_literals(x.left) \o _or_to_literals(x.right)
  ELSE IF is_variable(x) THEN <<x.name>>
  ELSE IF x.op = "NOT" /\ is_variable(x.left) THEN <<<<"-">> \o x.left.name>>
  ELSE <<FormulaStr(x)>>

RECURSIVE _formula_to_clauses(_)
_formula_to_clauses(x) ==
  IF x.op = "AND" THEN _formula_to_clauses(x.left) \o _formula_to_clauses(x.right)
  ELSE <<_or_to_literals(x)>>

to_cnf_equiv(x) ==
  _formula_to_clauses(_dist_or_over_and(_nnf(_elim_equiv_impl(x))))

RECURSIVE _is_clause(_)
_is_clause(x) ==
  IF is_literal(x) THEN TRUE
  ELSE IF x.op = "OR" THEN _is_clause(x.left) /\ _is_clause(x.right)
  ELSE FALSE

RECURSIVE _is_cnf(_)
_is_cnf(x) ==
  IF is_literal(x) THEN TRUE
  ELSE IF x.op = "AND" THEN _is_cnf(x.left) /\ _is_cnf(x.right)
  ELSE IF x.op = "OR" THEN _is_clause(x.left) /\ _is_clause(x.right)
  ELSE FALSE

\* -------------------------------------------------------- _dedup_simplify
\* set(c): the distinct literals of a clause
LitSet(c) == {c[i] : i \in 1..Len(c)}

\* the tautology test of the first loop
HasComplement(S) ==
  \/ \E l \in S : Head(l) = "-" /\ Tail(l) \in S
  \/ \E l \in S : Head(l) # "-" /\ (<<"-">> \o l) \in S

\* sorted(s)
RECURSIVE Sorted(_)
Sorted(S) ==
  IF S = {} THEN <<>>
  ELSE LET m == CHOOSE x \in S : \A y \in S \ {x} : StrLess(x, y) IN
       <<m>> \o Sorted(S \ {m})

\* the first loop without its "continue": tautological clauses are kept
RECURSIVE NormKeepsTautologies(_)
NormKeepsTautologies(cs) ==
  IF cs = <<>> THEN <<>>
  ELSE <<Sorted(LitSet(Head(cs)))>> \o NormKeepsTautologies(Tail(cs))

\* the first loop: norm
RECURSIVE Norm(_)
Norm(cs) ==
  IF cs = <<>> THEN <<>>
  ELSE IF HasComplement(LitSet(Head(cs))) THEN Norm(Tail(cs))
  ELSE <<Sorted(LitSet(Head(cs)))>> \o Norm(Tail(cs))

\* the test of the second loop looking at the following clause only (j == i + 1)
SubsumedByNext(norm, i) ==
  \E j \in 1..Len(norm) :
    /\ j = i + 1
    /\ LitSet(norm[j]) \subseteq LitSet(norm[i])
    /\ LitSet(norm[j]) # LitSet(norm[i])

\* the test of the second loop: some other clause of norm is a strict subset
Subsumed(norm, i) ==
  \E j \in 1..Len(norm) :
    /\ i # j
    /\ LitSet(norm[j]) \subseteq LitSet(norm[i])
    /\ LitSet(norm[j]) # LitSet(norm[i])

\* the second loop: out
RECURSIVE KeepFrom(_, _)
KeepFrom(norm, i) ==
  IF i > Len(norm) THEN <<>>
  ELSE IF Subsumed(norm, i) THEN KeepFrom(norm, i + 1)
  ELSE <<norm[i]>> \o KeepFrom(norm, i + 1)

_dedup_simplify(cs) == KeepFrom(Norm(cs), 1)

\* ------------------------------------------------------------ tseitin_450
fresh(id) == <<"t">> \o IntToStr(id)

\* lit_to_str: the literal's text, or the ValueError it raises
lit_to_str(x) ==
  IF is_variable(x) THEN [ok |-> TRUE, str |-> x.name]
  ELSE IF x.op = "NOT" /\ is_variable(x.left)
    THEN [ok |-> TRUE, str |-> <<"-">> \o x.left.name]
  ELSE Raise("Expected literal")

negate(l) == IF l # <<>> /\ Head(l) = "-" THEN Tail(l) ELSE <<"-">> \o l

\* add_equiv_cnf with the two encodings swapped
add_equiv_cnf_swapped(p, op, L, R) ==
  IF op = "OR"
  THEN << <<<<"-">> \o p, L>>, <<<<"-">> \o p, R>>, <<negate(L), negate(R), p>> >>
  ELSE << <<p, negate(L)>>, <<p, negate(R)>>, <<<<"-">> \o p, L, R>> >>

\* add_equiv_cnf: the three clauses appended for p <-> (L op R), op AND or OR
\* (TseitinStep raises its ValueError for any other op)
add_equiv_cnf(p, op, L, R) ==
  IF op = "AND"
  THEN << <<<<"-">> \o p, L>>, <<<<"-">> \o p, R>>, <<negate(L), negate(R), p>> >>
  ELSE << <<p, negate(L)>>, <<p, negate(R)>>, <<<<"-">> \o p, L, R>> >>

NotFound == [node |-> None, path |-> <<>>]

RECURSIVE find_literal_binary(_, _)
\* find_literal_binary that never searches the right subtree
find_literal_binary_left(h, path) ==
  IF is_variable(h) \/ h.op = "NOT"
  THEN IF h.op = "NOT" THEN find_literal_binary(h.left, Append(path, "left"))
       ELSE NotFound
  ELSE IF "left" \in DOMAIN h /\ "right" \in DOMAIN h
    THEN IF h.op \in {"AND", "OR"} /\ is_literal(h.left) /\ is_literal(h.right)
         THEN [node |-> h, path |-> path]
         ELSE find_literal_binary(h.left, Append(path, "left"))
  ELSE NotFound

find_literal_binary(h, path) ==
  IF is_variable(h) \/ h.op = "NOT"
  THEN IF h.op = "NOT" THEN find_literal_binary(h.left, Append(path, "left"))
       ELSE NotFound
  ELSE IF "left" \in DOMAIN h /\ "right" \in DOMAIN h
    THEN IF h.op \in {"AND", "OR"} /\ is_literal(h.left) /\ is_literal(h.right)
         THEN [node |-> h, path |-> path]
         ELSE LET l == find_literal_binary(h.left, Append(path, "left")) IN
              IF l.node # None THEN l
              ELSE LET r == find_literal_binary(h.right, Append(path, "right")) IN
                   IF r.node # None THEN r ELSE NotFound
  ELSE NotFound

RECURSIVE replace_at(_, _, _)
\* replace_at that does not follow the rest of the path: the atom replaces the
\* child the first step names
replace_at_child(h, path, atom) ==
  IF path = <<>> THEN atom
  ELSE IF Head(path) = "left" THEN Binary(h.op, atom, h.right)
  ELSE Binary(h.op, h.left, atom)

replace_at(h, path, atom) ==
  IF path = <<>> THEN atom
  ELSE IF Head(path) = "left"
    THEN IF "right" \in DOMAIN h
         THEN Binary(h.op, replace_at(h.left, Tail(path), atom), h.right)
         ELSE [op |-> h.op, left |-> replace_at(h.left, Tail(path), atom)]
  ELSE Binary(h.op, h.left, replace_at(h.right, Tail(path), atom))

\* ---------------------------------------------- converter specification
VarNames == {<<"A">>, <<"B">>, <<"t", "1">>}

BinOps == {"AND", "OR", "IMPL", "EQUIV"}

\* FormulasBySize(n)[k], k <= n: the formulas with exactly k nodes
RECURSIVE FormulasBySize(_)
FormulasBySize(n) ==
  IF n = 0 THEN <<>>
  ELSE LET prev == FormulasBySize(n - 1)
           unary == IF n = 1 THEN {Variable(v) : v \in VarNames}
                    ELSE {Not(x) : x \in prev[n - 1]}
           binary == UNION {{Binary(op, l, r) : op \in BinOps, l \in prev[k],
                                                r \in prev[n - 1 - k]} : k \in 1..(n - 2)}
       IN Append(prev, unary \cup binary)

\* "(A & B) v (C & D)"
Example ==
  Binary("OR", Binary("AND", Variable(<<"A">>), Variable(<<"B">>)),
               Binary("AND", Variable(<<"C">>), Variable(<<"D">>)))

Formulas ==
  LET sized == FormulasBySize(MaxNodes) IN
  UNION {sized[n] : n \in 1..MaxNodes} \cup {Example}

InitConverter ==
  /\ f \in Formulas
  /\ pc = "formula"
  /\ s = <<>> /\ error = "" /\ text = <<>> /\ f2 = None
  /\ cnf_eq = <<>> /\ g = None /\ clauses = <<>> /\ fresh_id = 0 /\ tseitin = <<>>
  /\ cls = <<>> /\ once = <<>> /\ twice = <<>>

\* main: cnf_eq = conv.to_cnf_equiv(f)
ToCnfEquiv ==
  /\ pc = "formula"
  /\ cnf_eq' = to_cnf_equiv(f)
  /\ pc' = "classical"
  /\ UNCHANGED <<s, f, error, text, f2, g, clauses, fresh_id, tseitin, cls, once, twice>>

\* tseitin_450 up to its loop: g, clauses = [], fresh_id = 0
TseitinBegin ==
  /\ pc = "classical"
  /\ g' = _nnf(_elim_equiv_impl(f))
  /\ clauses' = <<>>
  /\ fresh_id' = 0
  /\ pc' = "loop"
  /\ UNCHANGED <<s, f, error, text, f2, cnf_eq, tseitin, cls, once, twice>>

\* one iteration of "while not self._is_cnf(g)": the break, the ValueError of
\* lit_to_str, or the rewrite of the node found
TseitinStep ==
  /\ pc = "loop"
  /\ ~_is_cnf(g)
  /\ LET found == find_literal_binary(g, <<>>) IN
     IF found.node = None
     THEN /\ pc' = "stalled"
          /\ UNCHANGED <<g, clauses, fresh_id, error>>
     ELSE LET Ls == lit_to_str(found.node.left)
              Rs == lit_to_str(found.node.right)
              p == fresh(fresh_id + 1) IN
          IF ~Ls.ok \/ ~Rs.ok
          THEN /\ pc' = "raised"
               /\ error' = "Expected literal"
               /\ UNCHANGED <<g, clauses, fresh_id>>
          ELSE IF found.node.op \notin {"AND", "OR"}
          THEN /\ pc' = "raised"
               /\ error' = "Only AND/OR expected here"
               /\ UNCHANGED <<g, clauses, fresh_id>>
          ELSE /\ fresh_id' = fresh_id + 1
               /\ clauses' = clauses \o add_equiv_cnf(p, found.node.op, Ls.str, Rs.str)
               /\ g' = replace_at(g, found.path, Variable(p))
               /\ pc' = "loop"
               /\ error' = error
  /\ UNCHANGED <<s, f, text, f2, cnf_eq, tseitin, cls, once, twice>>

\* after the loop: cnf_g, and the return of _dedup_simplify(clauses + cnf_g)
TseitinReturn ==
  /\ (pc = "loop" /\ _is_cnf(g)) \/ pc = "stalled"
  /\ LET cnf_g == IF _is_cnf(g) THEN _formula_to_clauses(g) ELSE to_cnf_equiv(g) IN
     tseitin' = _dedup_simplify(clauses \o cnf_g)
  /\ pc' = "done"
  /\ UNCHANGED <<s, f, error, text, f2, cnf_eq, g, clauses, fresh_id, cls, once, twice>>

NextConverter == ToCnfEquiv \/ TseitinBegin \/ TseitinStep \/ TseitinReturn

SpecConverter == InitConverter /\ [][NextConverter]_vars

\* --------------------------------------------- simplifier specification
Literals == {<<"A">>, <<"-", "A">>, <<"B">>, <<"-", "B">>}

RECURSIVE Sum(_)
Sum(lens) == IF lens = <<>> THEN 0 ELSE Head(lens) + Sum(Tail(lens))

\* the literals flat cut into clauses of the lengths lens
RECURSIVE Split(_, _)
Split(flat, lens) ==
  IF lens = <<>> THEN <<>>
  ELSE <<SubSeq(flat, 1, Head(lens))>>
       \o Split(SubSeq(flat, Head(lens) + 1, Len(flat)), Tail(lens))

\* cls: at most MaxClauses clauses with at most MaxLits literals in all
InitSimplifier ==
  /\ \E k \in 0..MaxClauses : \E lens \in [1..k -> 0..MaxLits] :
       /\ Sum(lens) <= MaxLits
       /\ \E flat \in [1..Sum(lens) -> Literals] : cls = Split(flat, lens)
  /\ pc = "clauses"
  /\ once = <<>> /\ twice = <<>>
  /\ s = <<>> /\ f = None /\ error = "" /\ text = <<>> /\ f2 = None
  /\ cnf_eq = <<>> /\ g = None /\ clauses = <<>> /\ fresh_id = 0 /\ tseitin = <<>>

SimplifyOnce ==
  /\ pc = "clauses"
  /\ once' = _dedup_simplify(cls)
  /\ pc' = "once"
  /\ UNCHANGED <<s, f, error, text, f2, cnf_eq, g, clauses, fresh_id, tseitin, cls, twice>>

SimplifyTwice ==
  /\ pc = "once"
  /\ twice' = _dedup_simplify(once)
  /\ pc' = "twice"
  /\ UNCHANGED <<s, f, error, text, f2, cnf_eq, g, clauses, fresh_id, tseitin, cls, once>>

NextSimplifier == SimplifyOnce \/ SimplifyTwice

SpecSimplifier == InitSimplifier /\ [][NextSimplifier]_vars

\* ------------------------------------------------------------- semantics
\* the variable names of a formula
RECURSIVE Vars(_)
Vars(x) ==
  IF is_variable(x) THEN {x.name}
  ELSE IF x.op = "NOT" THEN Vars(x.left)
  ELSE Vars(x.left) \cup Vars(x.right)

\* the truth value of a formula where exactly the variables in a are true
RECURSIVE Eval(_, _)
Eval(x, a) ==
  IF is_variable(x) THEN x.name \in a
  ELSE IF x.op = "NOT" THEN ~Eval(x.left, a)
  ELSE IF x.op = "AND" THEN Eval(x.left, a) /\ Eval(x.right, a)
  ELSE IF x.op = "OR" THEN Eval(x.left, a) \/ Eval(x.right, a)
  ELSE IF x.op = "IMPL" THEN Eval(x.left, a) => Eval(x.right, a)
  ELSE Eval(x.left, a) <=> Eval(x.right, a)

\* a literal string is a name, or "-" and a name
LitVar(l) == IF Head(l) = "-" THEN Tail(l) ELSE l

EvalLit(l, a) == IF Head(l) = "-" THEN Tail(l) \notin a ELSE l \in a

EvalClauses(cs, a) ==
  \A i \in 1..Len(cs) : \E j \in 1..Len(cs[i]) : EvalLit(cs[i][j], a)

ClauseVars(cs) == UNION {{LitVar(l) : l \in LitSet(cs[i])} : i \in 1..Len(cs)}

\* the And/Or nodes of a formula
RECURSIVE CountBinary(_)
CountBinary(x) ==
  IF is_variable(x) THEN 0
  ELSE IF x.op = "NOT" THEN CountBinary(x.left)
  ELSE 1 + CountBinary(x.left) + CountBinary(x.right)

\* t<n>, n = 1, 2, ...
IsFreshName(name) ==
  /\ Len(name) >= 2
  /\ name[1] = "t"
  /\ name[2] # "0"
  /\ \A i \in 2..Len(name) : \E d \in 1..Len(Digits) : Digits[d] = name[i]

\* no clause holds a literal x and the literal -x
NoTautology(cs) ==
  \A i \in 1..Len(cs) : \A l \in LitSet(cs[i]) : (<<"-">> \o l) \notin LitSet(cs[i])

\* the Variable nodes of a tree carry identifier names
IsIdentifier(name) == name # <<>> /\ \A i \in 1..Len(name) : IsIdentChar(name[i])

RECURSIVE VariablesAreIdentifiers(_)
VariablesAreIdentifiers(x) ==
  IF is_variable(x) THEN DOMAIN x = {"op", "name"} /\ IsIdentifier(x.name)
  ELSE IF x.op = "NOT" THEN VariablesAreIdentifiers(x.left)
  ELSE VariablesAreIdentifiers(x.left) /\ VariablesAreIdentifiers(x.right)

\* ---------------------------------------------------------------- claims
\* C1: for every formula f and every truth assignment to the variables of f, f is
\* true iff every clause of to_cnf_equiv(f) holds a literal true under the same
\* assignment; the clauses mention no variable that f does not.
ClassicalCnfEquivalent ==
  pc = "classical" =>
    /\ ClauseVars(cnf_eq) \subseteq Vars(f)
    /\ \A a \in SUBSET Vars(f) : Eval(f, a) <=> EvalClauses(cnf_eq, a)

\* an equivalence with several clauses, neither valid nor unsatisfiable, was converted
ClassicalCnfWitness ==
  /\ pc = "classical"
  /\ f.op = "EQUIV"
  /\ Len(cnf_eq) >= 2
  /\ \E a \in SUBSET Vars(f) : Eval(f, a)
  /\ \E a \in SUBSET Vars(f) : ~Eval(f, a)

\* C2: where no variable of f is named t<n>, an assignment to the variables of f
\* satisfies f iff some values for the fresh variables make every clause of
\* tseitin_450(f) true; the other variables of the clauses are the fresh t1..t<fresh_id>.
TseitinEquisatisfiable ==
  (pc = "done" /\ \A v \in Vars(f) : ~IsFreshName(v)) =>
    /\ ClauseVars(tseitin) \ Vars(f) \subseteq {fresh(i) : i \in 1..fresh_id}
    /\ \A a \in SUBSET Vars(f) :
         Eval(f, a) <=> \E e \in SUBSET (ClauseVars(tseitin) \ Vars(f)) :
                          EvalClauses(tseitin, a \cup e)

\* a formula without t<n>, neither valid nor unsatisfiable, went through two rewrites
TseitinEquisatisfiableWitness ==
  /\ pc = "done"
  /\ \A v \in Vars(f) : ~IsFreshName(v)
  /\ fresh_id >= 2
  /\ \E a \in SUBSET Vars(f) : Eval(f, a)
  /\ \E a \in SUBSET Vars(f) : ~Eval(f, a)

\* C3 as stated: in both pipelines (to_cnf_equiv and tseitin_450) no returned clause
\* holds a literal x and its negation -x.
NoTautologyInAnyPipeline ==
  /\ pc \in {"classical", "loop", "done"} => NoTautology(cnf_eq)
  /\ pc = "done" => NoTautology(tseitin)

\* C3 amended: no clause returned by tseitin_450 holds a literal x and its negation -x.
TseitinHasNoTautology == pc = "done" => NoTautology(tseitin)

\* tseitin_450 returned after _dedup_simplify was handed a tautological clause
TseitinDroppedTautology ==
  /\ pc = "done"
  /\ ~NoTautology(clauses \o _formula_to_clauses(g))

\* C4: the fresh names t1..t<fresh_id> of one tseitin_450 invocation are not variable
\* names of the input formula.
FreshNamesAvoidInput == \A i \in 1..fresh_id : fresh(i) \notin Vars(f)

\* C5: _dedup_simplify(_dedup_simplify(cls)) equals _dedup_simplify(cls): the same
\* clauses in the same order with the same literal order.
SimplifyIdempotent == pc = "twice" => twice = once

\* the first run dropped a clause and kept at least two
SimplifyIdempotentWitness ==
  /\ pc = "twice"
  /\ Len(once) >= 2
  /\ Len(once) < Len(cls)

\* C6: where parse() succeeds on s with tree T, parsing str(T) succeeds too and
\* returns a tree equal to T.
ParsePrintRoundTrip ==
  pc \in {"reparsed", "refailed"} => (pc = "reparsed" /\ f2 = f)

\* C7: in a tree returned by parse() every Variable node has no children and its
\* name is a non-empty run of alphanumeric/underscore characters.
ParsedVariablesAreIdentifiers == pc = "parsed" => VariablesAreIdentifiers(f)

\* C8: whenever the tree g of the Tseitin loop is not CNF, find_literal_binary
\* returns an And/Or node whose children are both literals; the loop never breaks
\* on "node is None", lit_to_str never raises, and g is CNF when the loop has ended.
SearchAlwaysFinds ==
  /\ pc \notin {"stalled", "raised"}
  /\ pc = "done" => _is_cnf(g)
  /\ (pc = "loop" /\ ~_is_cnf(g)) =>
       LET found == find_literal_binary(g, <<>>) IN
       /\ found.node # None
       /\ found.node.op \in {"AND", "OR"}
       /\ is_literal(found.node.left)
       /\ is_literal(found.node.right)

\* the search is run on a tree that a rewrite has changed and that is not yet CNF
SearchAfterRewriteWitness ==
  /\ pc = "loop"
  /\ fresh_id >= 1
  /\ ~_is_cnf(g)

\* C9: each iteration of the Tseitin loop removes exactly one And/Or node of g,
\* appends exactly 3 clauses and uses one fresh variable, so the iterations never
\* exceed the And/Or nodes of toNNF(eliminateEquivImpl(f)); "(A & B) v (C & D)"
\* uses exactly 2 fresh variables.
TseitinLoopIsBounded ==
  /\ [][(pc = "loop" /\ pc' = "loop") =>
          /\ CountBinary(g') = CountBinary(g) - 1
          /\ Len(clauses') = Len(clauses) + 3
          /\ fresh_id' = fresh_id + 1]_vars
  /\ [](pc \in {"loop", "done"} =>
          /\ fresh_id + CountBinary(g) = CountBinary(_nnf(_elim_equiv_impl(f)))
          /\ Len(clauses) = 3 * fresh_id)
  /\ []((pc = "done" /\ f = Example) => fresh_id = 2)

\* the conversion of "(A & B) v (C & D)" has ended with two fresh variables
TseitinExampleWitness ==
  /\ pc = "done"
  /\ f = Example
  /\ fresh_id = 2
  /\ Len(clauses) = 6

\* C10: the list returned by _dedup_simplify, and so by tseitin_450, never holds two
\* clauses with the same literal set.
NoDuplicateClauses ==
  pc = "done" =>
    \A i, j \in 1..Len(tseitin) :
      i # j => LitSet(tseitin[i]) # LitSet(tseitin[j])

====
